---- MODULE Spec2Model ----
(***************************************************************************)
(* Model of the AI-Voice-Generator browser client.                         *)
(*   src/enc.js   : password-based encryption of the stored API key        *)
(*   src/index.js : PCM -> WAV framing, the retrying remote call, the      *)
(*                  generate handler and the page-load handler             *)
(* JavaScript strings are sequences of UTF-16 code units, buffers are      *)
(* sequences of bytes (0..255).  A call that can throw returns a record    *)
(* [ok |-> TRUE, val |-> v] or [ok |-> FALSE, err |-> name, msg |-> text]; *)
(* a message text is a sequence of its pieces.                             *)
(***************************************************************************)
EXTENDS Integers, Sequences, FiniteSets, TLC

\* ------------------------------------------------------------------ bounds
\* longest plaintext (in code units) the cipher specification draws
MaxStrLen == 2
\* number of distinct outputs of crypto.getRandomValues the model draws from
NumSeeds == 2

\* --------------------------------------------------------------- constants
saltLen == 16
ivLen == 12
\* AES-GCM's default tag length, in bytes (tagLength is not given in enc.js)
tagLen == 16

Bytes == 0..255

Ok(v) == [ok |-> TRUE, val |-> v]
Err(name, text) == [ok |-> FALSE, err |-> name, msg |-> text]

\* combined.slice(a, b) of a Uint8Array: bytes a .. b-1 (0-based), clamped
Slice(buf, a, b) ==
  LET lo == IF a > Len(buf) THEN Len(buf) ELSE a
      hi == IF b > Len(buf) THEN Len(buf) ELSE b
  IN  IF hi <= lo THEN <<>> ELSE SubSeq(buf, lo + 1, hi)

\* ---------------------------------------------------- TextEncoder / Decoder
IsHighSurrogate(c) == c >= 55296 /\ c <= 56319
IsLowSurrogate(c) == c >= 56320 /\ c <= 57343
ReplacementChar == 65533

\* a JavaScript string as scalar values: a surrogate pair is one code point,
\* a lone surrogate becomes U+FFFD (the USVString conversion of encode())
RECURSIVE ToScalars(_)
ToScalars(s) ==
  IF s = <<>> THEN <<>>
  ELSE IF IsHighSurrogate(s[1]) /\ Len(s) >= 2 /\ IsLowSurrogate(s[2])
       THEN <<65536 + (s[1] - 55296) * 1024 + (s[2] - 56320)>>
              \o ToScalars(Tail(Tail(s)))
  ELSE IF IsHighSurrogate(s[1]) \/ IsLowSurrogate(s[1])
       THEN <<ReplacementChar>> \o ToScalars(Tail(s))
  ELSE <<s[1]>> \o ToScalars(Tail(s))

Utf8Bytes(cp) ==
  IF cp < 128 THEN <<cp>>
  ELSE IF cp < 2048 THEN <<192 + cp \div 64, 128 + (cp % 64)>>
  ELSE IF cp < 65536
       THEN <<224 + cp \div 4096, 128 + ((cp \div 64) % 64), 128 + (cp % 64)>>
  ELSE <<240 + cp \div 262144, 128 + ((cp \div 4096) % 64),
         128 + ((cp \div 64) % 64), 128 + (cp % 64)>>

RECURSIVE Utf8All(_)
Utf8All(cps) ==
  IF cps = <<>> THEN <<>> ELSE Utf8Bytes(cps[1]) \o Utf8All(Tail(cps))

\* new TextEncoder().encode(str)
TextEncode(str) == Utf8All(ToScalars(str))

\* The UTF-8 decoder of the Encoding standard, not fatal: i is the next byte
\* (1-based), cp/needed/seen/lower/upper are the decoder's own state.
RECURSIVE Utf8Decode(_, _, _, _, _, _, _)
Utf8Decode(b, i, cp, needed, seen, lower, upper) ==
  IF i > Len(b)
  THEN IF needed # 0 THEN <<ReplacementChar>> ELSE <<>>
  ELSE LET x == b[i] IN
    IF needed = 0
    THEN IF x <= 127 THEN <<x>> \o Utf8Decode(b, i + 1, 0, 0, 0, 128, 191)
         ELSE IF x >= 194 /\ x <= 223
              THEN Utf8Decode(b, i + 1, x - 192, 1, 0, 128, 191)
         ELSE IF x >= 224 /\ x <= 239
              THEN Utf8Decode(b, i + 1, x - 224, 2, 0,
                              IF x = 224 THEN 160 ELSE 128,
                              IF x = 237 THEN 159 ELSE 191)
         ELSE IF x >= 240 /\ x <= 244
              THEN Utf8Decode(b, i + 1, x - 240, 3, 0,
                              IF x = 240 THEN 144 ELSE 128,
                              IF x = 244 THEN 143 ELSE 191)
         ELSE <<ReplacementChar>> \o Utf8Decode(b, i + 1, 0, 0, 0, 128, 191)
    ELSE IF x < lower \/ x > upper
         THEN <<ReplacementChar>> \o Utf8Decode(b, i, 0, 0, 0, 128, 191)
    ELSE IF seen + 1 = needed
         THEN <<cp * 64 + (x - 128)>> \o Utf8Decode(b, i + 1, 0, 0, 0, 128, 191)
    ELSE Utf8Decode(b, i + 1, cp * 64 + (x - 128), needed, seen + 1, 128, 191)

\* code points back to UTF-16 code units
RECURSIVE ToCodeUnits(_)
ToCodeUnits(cps) ==
  IF cps = <<>> THEN <<>>
  ELSE IF cps[1] >= 65536
       THEN <<55296 + (cps[1] - 65536) \div 1024, 56320 + ((cps[1] - 65536) % 1024)>>
              \o ToCodeUnits(Tail(cps))
  ELSE <<cps[1]>> \o ToCodeUnits(Tail(cps))

\* new TextDecoder().decode(buf): ignoreBOM is false, so a leading EF BB BF is
\* dropped before decoding; malformed input decodes to U+FFFD (fatal is false)
TextDecode(buf) ==
  LET body == IF Len(buf) >= 3 /\ SubSeq(buf, 1, 3) = <<239, 187, 191>>
              THEN SubSeq(buf, 4, Len(buf)) ELSE buf
  IN  ToCodeUnits(Utf8Decode(body, 1, 0, 0, 0, 128, 191))

\* ------------------------------------------------------------------ base64
\* the code unit of the base64 digit v (0..63): A-Z a-z 0-9 + /
B64Char(v) ==
  IF v < 26 THEN 65 + v
  ELSE IF v < 52 THEN 97 + (v - 26)
  ELSE IF v < 62 THEN 48 + (v - 52)
  ELSE IF v = 62 THEN 43 ELSE 47

\* the digit of a code unit, -1 when it is not in the base64 alphabet
B64Val(c) ==
  IF c >= 65 /\ c <= 90 THEN c - 65
  ELSE IF c >= 97 /\ c <= 122 THEN c - 97 + 26
  ELSE IF c >= 48 /\ c <= 57 THEN c - 48 + 52
  ELSE IF c = 43 THEN 62
  ELSE IF c = 47 THEN 63 ELSE -1

PadChar == 61
IsAsciiWhitespace(c) == c \in {9, 10, 12, 13, 32}

\* btoa(binary): the base64 of a string of code units 0..255, padded with =;
\* output character k (1-based) is digit (k-1) % 4 of group (k-1) \div 4
Btoa(s) ==
  LET n == Len(s)
      At(i) == IF i <= n THEN s[i] ELSE 0
      Char(k) ==
        LET g == (k - 1) \div 4
            j == (k - 1) % 4
            b1 == At(3 * g + 1)
            b2 == At(3 * g + 2)
            b3 == At(3 * g + 3)
        IN  IF j = 0 THEN B64Char(b1 \div 4)
            ELSE IF j = 1 THEN B64Char((b1 % 4) * 16 + b2 \div 16)
            ELSE IF j = 2
                 THEN IF 3 * g + 2 > n THEN PadChar
                      ELSE B64Char((b2 % 16) * 4 + b3 \div 64)
            ELSE IF 3 * g + 3 > n THEN PadChar ELSE B64Char(b3 % 64)
  IN  [k \in 1..(4 * ((n + 2) \div 3)) |-> Char(k)]

StripWhitespace(s) == SelectSeq(s, LAMBDA c : ~IsAsciiWhitespace(c))

\* the digits of a whitespace- and padding-free base64 string, decoded; the
\* bits left over in a final group of 2 or 3 digits are discarded
B64Groups(d) ==
  LET Byte(m) ==
        LET g == (m - 1) \div 3
            j == (m - 1) % 3
        IN  IF j = 0 THEN d[4 * g + 1] * 4 + d[4 * g + 2] \div 16
            ELSE IF j = 1 THEN (d[4 * g + 2] % 16) * 16 + d[4 * g + 3] \div 4
            ELSE (d[4 * g + 3] % 4) * 64 + d[4 * g + 4]
  IN  [m \in 1..((Len(d) * 3) \div 4) |-> Byte(m)]

\* atob(data): forgiving-base64 decode; InvalidCharacterError when the data,
\* whitespace removed, has length 1 mod 4 or holds a non-alphabet character
Atob(data) ==
  LET s0 == StripWhitespace(data)
      n0 == Len(s0)
      s1 == IF n0 > 0 /\ n0 % 4 = 0 /\ s0[n0] = PadChar
            THEN IF s0[n0 - 1] = PadChar THEN SubSeq(s0, 1, n0 - 2)
                 ELSE SubSeq(s0, 1, n0 - 1)
            ELSE s0
  IN  IF Len(s1) % 4 = 1 \/ \E k \in 1..Len(s1) : B64Val(s1[k]) = -1
      THEN Err("InvalidCharacterError", <<"Failed to execute 'atob'">>)
      ELSE Ok(B64Groups([k \in 1..Len(s1) |-> B64Val(s1[k])]))

\* ------------------------------------------------------------ src/enc.js
\* bufToBase64(buf): String.fromCharCode of each byte, then btoa
bufToBase64(buf) == Btoa(buf)

\* base64ToBuf(b64): atob, then charCodeAt of each character
base64ToBuf(b64) == Atob(b64)

concatBuffers(a, b, c) == a \o b \o c

\* deriveKey: the CryptoKey is not extractable; PBKDF2 (200000 rounds of
\* SHA-256) is taken as ideal: the key is determined by, and determines, the
\* encoded password and the salt
deriveKey(password, salt) == [pw |-> TextEncode(password), salt |-> salt]

\* A digest of a byte sequence, the model's stand-in for the block cipher's
\* pseudo-random function: a sum of the bytes weighted by position and by the
\* multipliers a and c, modulo a prime.
RECURSIVE WeightedSum(_, _, _, _, _)
WeightedSum(buf, lo, hi, a, c) ==
  IF lo > hi THEN 0
  ELSE IF lo = hi THEN (buf[lo] + 1) * (a + c * lo)
  ELSE LET mid == (lo + hi) \div 2
       IN  WeightedSum(buf, lo, mid, a, c) + WeightedSum(buf, mid + 1, hi, a, c)

Digest(buf, a, c, modulus) == (Len(buf) + WeightedSum(buf, 1, Len(buf), a, c)) % modulus

KeyMaterial(key, iv) == key.pw \o <<255>> \o key.salt \o iv

\* the key stream of AES-GCM's counter mode, byte i (1-based)
KeyStream(key, iv, i) == (Digest(KeyMaterial(key, iv), 7, 31, 65521) + 13 * i) % 256

\* the 16-byte authentication tag over the key, the nonce and the ciphertext
GcmTag(key, iv, body) ==
  LET h1 == Digest(KeyMaterial(key, iv) \o body, 31, 17, 65521)
      h2 == Digest(KeyMaterial(key, iv) \o body, 5, 257, 65519)
  IN  [j \in 1..tagLen |->
         IF j = 1 THEN h1 % 256
         ELSE IF j = 2 THEN h1 \div 256
         ELSE IF j = 3 THEN h2 % 256
         ELSE IF j = 4 THEN h2 \div 256
         ELSE (h1 + j * h2) % 256]

\* crypto.subtle.encrypt({name: 'AES-GCM', iv}, key, data)
AesGcmEncrypt(key, iv, data) ==
  LET body == [i \in 1..Len(data) |-> (data[i] + KeyStream(key, iv, i)) % 256]
  IN  body \o GcmTag(key, iv, body)

\* decryption that never compares the tag (a cipher mode without authentication)
AesGcmDecrypt_NoTagCheck(key, iv, ct) ==
  IF Len(ct) < tagLen THEN Err("OperationError", <<>>)
  ELSE LET body == SubSeq(ct, 1, Len(ct) - tagLen)
       IN  Ok([i \in 1..Len(body) |->
                 (body[i] + 256 - KeyStream(key, iv, i)) % 256])

\* crypto.subtle.decrypt({name: 'AES-GCM', iv}, key, ct): OperationError when
\* the ciphertext is shorter than the tag or the tag does not verify
AesGcmDecrypt(key, iv, ct) ==
  IF Len(ct) < tagLen THEN Err("OperationError", <<>>)
  ELSE LET body == SubSeq(ct, 1, Len(ct) - tagLen)
           tag == SubSeq(ct, Len(ct) - tagLen + 1, Len(ct))
       IN  IF tag # GcmTag(key, iv, body) THEN Err("OperationError", <<>>)
           ELSE Ok([i \in 1..Len(body) |->
                      (body[i] + 256 - KeyStream(key, iv, i)) % 256])

\* encryptApiKey(apiKey, password); salt and iv are what getRandomValues drew
encryptApiKey(apiKey, password, salt, iv) ==
  LET key == deriveKey(password, salt)
      ct == AesGcmEncrypt(key, iv, TextEncode(apiKey))
  IN  bufToBase64(concatBuffers(salt, iv, ct))

\* decryptApiKey(encryptedBase64, password)
decryptApiKey(encryptedBase64, password) ==
  LET combinedBuf == base64ToBuf(encryptedBase64) IN
  IF ~combinedBuf.ok THEN combinedBuf
  ELSE LET combined == combinedBuf.val
           salt == Slice(combined, 0, saltLen)
           iv == Slice(combined, saltLen, saltLen + ivLen)
           ct == Slice(combined, saltLen + ivLen, Len(combined))
           key == deriveKey(password, salt)
           plainBuf == AesGcmDecrypt(key, iv, ct)
       IN  IF ~plainBuf.ok THEN plainBuf ELSE Ok(TextDecode(plainBuf.val))

\* what crypto.getRandomValues(new Uint8Array(n)) can return, by seed
RandomBytes(n, seed) == [i \in 1..n |-> (seed * 89 + i * 37 + 11) % 256]
Seeds == 0..(NumSeeds - 1)

\* ------------------------------------------------- the cipher, exercised
\* "Encc1234", the password index.js passes
Encc1234 == <<69, 110, 99, 99, 49, 50, 51, 52>>

\* code units plaintexts are built from: 'k', U+FEFF and a lone high
\* surrogate; U+1F600, a surrogate pair, is a plaintext too
PlainUnits == {107, 65279, 55357}
Plaintexts == UNION {[1..n -> PlainUnits] : n \in 0..MaxStrLen} \cup {<<55357, 56832>>}

\* "Encc1234", a lone high surrogate, and U+FFFD
Passwords == {Encc1234, <<55357>>, <<65533>>}

\* how much a tampered byte is changed by (mod 256)
TamperDeltas == {1, 128}

\* blobs that encryptApiKey did not produce: "", base64 of 10 zero bytes,
\* "null", "!!", "A", base64 of 27 and of 28 zero bytes
ForeignBlobs ==
  { <<>>, Btoa([i \in 1..10 |-> 0]), <<110, 117, 108, 108>>, <<33, 33>>, <<65>>,
    Btoa([i \in 1..(saltLen + ivLen - 1) |-> 0]),
    Btoa([i \in 1..(saltLen + ivLen) |-> 0]) }

NoResult == Err("none", <<>>)

VARIABLES
  cPassword,     \* the password given to encryptApiKey
  cPlain,        \* the plaintext given to encryptApiKey
  cBlob,         \* the blob at hand
  cOrigin,       \* "none" | "encrypt" | "tamper" | "foreign": where cBlob is from
  cDecPassword,  \* the password given to decryptApiKey
  cDone,         \* decryptApiKey has been called
  cResult        \* what decryptApiKey returned or threw

cipherVars == <<cPassword, cPlain, cBlob, cOrigin, cDecPassword, cDone, cResult>>

CipherInit ==
  /\ cPassword \in Passwords
  /\ cPlain \in Plaintexts
  /\ cBlob = <<>>
  /\ cOrigin = "none"
  /\ cDecPassword = <<>>
  /\ cDone = FALSE
  /\ cResult = NoResult

\* blob = await encryptApiKey(cPlain, cPassword)
CipherEncrypt ==
  /\ cOrigin = "none"
  /\ \E s \in Seeds, n \in Seeds :
       cBlob' = encryptApiKey(cPlain, cPassword,
                              RandomBytes(saltLen, s), RandomBytes(ivLen, n + NumSeeds))
  /\ cOrigin' = "encrypt"
  /\ UNCHANGED <<cPassword, cPlain, cDecPassword, cDone, cResult>>

\* one byte of the blob's ciphertext region (offset 28 on) is changed
CipherTamper ==
  /\ cOrigin = "encrypt"
  /\ ~cDone
  /\ LET buf == base64ToBuf(cBlob).val IN
       \E pos \in (saltLen + ivLen + 1)..Len(buf), d \in TamperDeltas :
         cBlob' = bufToBase64([buf EXCEPT ![pos] = (@ + d) % 256])
  /\ cOrigin' = "tamper"
  /\ UNCHANGED <<cPassword, cPlain, cDecPassword, cDone, cResult>>

\* the blob at hand is one encryptApiKey did not write
CipherForeign ==
  /\ cOrigin = "none"
  /\ cBlob' \in ForeignBlobs
  /\ cOrigin' = "foreign"
  /\ UNCHANGED <<cPassword, cPlain, cDecPassword, cDone, cResult>>

\* result = await decryptApiKey(cBlob, p)
CipherDecrypt ==
  /\ cOrigin # "none"
  /\ ~cDone
  /\ \E p \in Passwords :
       /\ cDecPassword' = p
       /\ cResult' = decryptApiKey(cBlob, p)
  /\ cDone' = TRUE
  /\ UNCHANGED <<cPassword, cPlain, cBlob, cOrigin>>

\* ------------------------------------------------- src/index.js: pcmToWav
\* A JavaScript number that holds an integer is a little-endian sequence of
\* base-256 digits, so that values of 2^31 and more can be written down.
Digit(d, i) == IF i >= 1 /\ i <= Len(d) THEN d[i] ELSE 0

\* same integer, whatever the number of leading zero digits
WideEq(a, b) ==
  \A i \in 1..(IF Len(a) > Len(b) THEN Len(a) ELSE Len(b)) : Digit(a, i) = Digit(b, i)

\* the digits of a small integer n (0 <= n < 2^31)
Wide(n) == <<n % 256, (n \div 256) % 256, (n \div 65536) % 256, n \div 16777216>>

\* d * k for a small factor k, digit by digit with carry
RECURSIVE WideTimesFrom(_, _, _, _)
WideTimesFrom(d, k, i, carry) ==
  IF i > Len(d) THEN IF carry = 0 THEN <<>> ELSE Wide(carry)
  ELSE <<(d[i] * k + carry) % 256>>
         \o WideTimesFrom(d, k, i + 1, (d[i] * k + carry) \div 256)

WideTimes(d, k) == WideTimesFrom(d, k, 1, 0)

\* DataView.setUint32(off, v, true): ToUint32(v), i.e. v mod 2^32, little-endian
Uint32LE(d) == [i \in 1..4 |-> Digit(d, i)]

\* DataView.setUint16(off, v, true): v mod 2^16, little-endian
Uint16LE(d) == [i \in 1..2 |-> Digit(d, i)]

\* the bytes written at byte offset off (0-based) of buf
Put(buf, off, bytes) ==
  [i \in 1..Len(buf) |->
     IF i > off /\ i <= off + Len(bytes) THEN bytes[i - off] ELSE buf[i]]

\* writeString(view, offset, string): setUint8 of each char code
writeString(buf, offset, string) ==
  Put(buf, offset, [i \in 1..Len(string) |-> string[i] % 256])

RIFF == <<82, 73, 70, 70>>
WAVE == <<87, 65, 86, 69>>
FmtTag == <<102, 109, 116, 32>>
DataTag == <<100, 97, 116, 97>>

\* An Int16Array is a view [buffer, byteOffset, length] of an ArrayBuffer.
ByteLength(pcm16) == 2 * pcm16.length

\* the bytes of the view's own samples
OwnBytes(pcm16) ==
  SubSeq(pcm16.buffer, pcm16.byteOffset + 1, pcm16.byteOffset + ByteLength(pcm16))

\* the ArrayBuffer pcmToWav fills: header fields, then the copied samples
WavBuffer(pcm16, sampleRate) ==
  LET numChannels == 1
      bitsPerSample == 16
      byteRate == WideTimes(sampleRate, numChannels * (bitsPerSample \div 8))
      blockAlign == numChannels * (bitsPerSample \div 8)
      dataLength == ByteLength(pcm16)
      b0 == [i \in 1..(44 + dataLength) |-> 0]
      b1 == writeString(b0, 0, RIFF)
      b2 == Put(b1, 4, Uint32LE(Wide(36 + dataLength)))
      b3 == writeString(b2, 8, WAVE)
      b4 == writeString(b3, 12, FmtTag)
      b5 == Put(b4, 16, Uint32LE(Wide(16)))
      b6 == Put(b5, 20, Uint16LE(Wide(1)))
      b7 == Put(b6, 22, Uint16LE(Wide(numChannels)))
      b8 == Put(b7, 24, Uint32LE(sampleRate))
      b9 == Put(b8, 28, Uint32LE(byteRate))
      b10 == Put(b9, 32, Uint16LE(Wide(blockAlign)))
      b11 == Put(b10, 34, Uint16LE(Wide(bitsPerSample)))
      b12 == writeString(b11, 36, DataTag)
      b13 == Put(b12, 40, Uint32LE(Wide(dataLength)))
      \* new DataView(pcm16.buffer): byte i of the buffer, not of the view
      dataView == pcm16.buffer
  IN  Put(b13, 44, [i \in 1..dataLength |-> dataView[i]])

\* pcmToWav with the chunk size written as the file's whole length
pcmToWav_ChunkSizeWhole(pcm16, sampleRate) ==
  Put(WavBuffer(pcm16, sampleRate), 4, Uint32LE(Wide(44 + ByteLength(pcm16))))

\* pcmToWav with the byte rate taken from the bit depth, not the byte depth
pcmToWav_ByteRateBits(pcm16, sampleRate) ==
  Put(WavBuffer(pcm16, sampleRate), 28, Uint32LE(WideTimes(sampleRate, 16)))

\* pcmToWav(pcm16, sampleRate): the bytes of the Blob made of the buffer
pcmToWav(pcm16, sampleRate) == WavBuffer(pcm16, sampleRate)

\* ------------------------------------------------ pcmToWav, exercised
\* longest ArrayBuffer (in bytes) the framer specification draws
MaxBufLen == 4

\* byte values the sample buffers are built from
SampleBytes == {0, 1, 255}
Buffers == UNION {[1..n -> SampleBytes] : n \in 0..MaxBufLen}

\* every Int16Array over a buffer: new Int16Array(buffer, byteOffset, length)
Int16Views ==
  { [buffer |-> b, byteOffset |-> o, length |-> n] :
      b \in Buffers, o \in {2 * k : k \in 0..(MaxBufLen \div 2)},
      n \in 0..(MaxBufLen \div 2) }

ValidView(v) ==
  /\ v.byteOffset % 2 = 0
  /\ v.byteOffset + 2 * v.length <= Len(v.buffer)

\* sample rates: 0, 1, 24000, 48000, 2^31 - 1, 2^31, 2^31 + 24000, 2^32 + 1
SampleRates ==
  { Wide(0), Wide(1), Wide(24000), Wide(48000), Wide(2147483647),
    <<0, 0, 0, 128>>, <<192, 93, 0, 128>>, <<1, 0, 0, 0, 1>> }

VARIABLES
  wPcm16,    \* the Int16Array passed to pcmToWav
  wRate,     \* the sample rate passed to pcmToWav
  wCalled,   \* pcmToWav has returned
  wOut       \* the bytes of the Blob it returned

wavVars == <<wPcm16, wRate, wCalled, wOut>>

WavInit ==
  /\ wPcm16 \in {v \in Int16Views : ValidView(v)}
  /\ wRate \in SampleRates
  /\ wCalled = FALSE
  /\ wOut = <<>>

\* wOut = pcmToWav(wPcm16, wRate)
WavCall ==
  /\ ~wCalled
  /\ wOut' = pcmToWav(wPcm16, wRate)
  /\ wCalled' = TRUE
  /\ UNCHANGED <<wPcm16, wRate>>

\* ------------------------------------- src/index.js: the page's handlers
\* pending hide timers of showMessage the model keeps at once
MaxTimers == 2

maxRetries == 5
InitialDelay == 1000

\* str.trim(), for the white space the model types (spaces)
RECURSIVE TrimLeft(_)
TrimLeft(s) == IF s # <<>> /\ s[1] = 32 THEN TrimLeft(Tail(s)) ELSE s

RECURSIVE TrimRight(_)
TrimRight(s) ==
  IF s # <<>> /\ s[Len(s)] = 32 THEN TrimRight(SubSeq(s, 1, Len(s) - 1)) ELSE s

Trim(s) == TrimRight(TrimLeft(s))

\* str.startsWith(prefix), on code units
StartsWith(s, prefix) == Len(s) >= Len(prefix) /\ SubSeq(s, 1, Len(prefix)) = prefix

IsDigit(c) == c >= 48 /\ c <= 57

\* "rate="
RateEq == <<114, 97, 116, 101, 61>>

\* mimeType.match(/rate=(\d+)/): the digits captured by the first match, <<>>
\* when there is no match
RateMatch(s) ==
  LET Hit(i) == /\ i + Len(RateEq) <= Len(s)
                /\ SubSeq(s, i, i + Len(RateEq) - 1) = RateEq
                /\ IsDigit(s[i + Len(RateEq)])
      hits == {i \in 1..Len(s) : Hit(i)}
  IN  IF hits = {} THEN <<>>
      ELSE LET i == CHOOSE h \in hits : \A g \in hits : h <= g
               from == i + Len(RateEq)
               last == CHOOSE e \in from..Len(s) :
                         /\ \A k \in from..e : IsDigit(s[k])
                         /\ (e = Len(s) \/ ~IsDigit(s[e + 1]))
           IN  SubSeq(s, from, last)

\* parseInt(digits, 10), as a wide integer
RECURSIVE ParseIntFrom(_, _, _)
ParseIntFrom(digits, i, acc) ==
  IF i > Len(digits) THEN acc
  ELSE ParseIntFrom(digits, i + 1,
                    LET v == WideTimesFrom(acc, 10, 1, digits[i] - 48)
                    IN  IF v = <<>> THEN <<0>> ELSE v)

parseInt(digits) == ParseIntFrom(digits, 1, <<0>>)

\* base64ToArrayBuffer(base64): atob, then charCodeAt of each character
base64ToArrayBuffer(base64) == Atob(base64)

\* new Int16Array(buffer): RangeError when the byte length is odd
NewInt16Array(buffer) ==
  IF Len(buffer) % 2 # 0
  THEN Err("RangeError", <<"byte length of Int16Array should be a multiple of 2">>)
  ELSE Ok([buffer |-> buffer, byteOffset |-> 0, length |-> Len(buffer) \div 2])

\* the errors index.js throws
KeyNotFound ==
  Err("Error", <<"API key not found. Please refresh the page and enter your API key.">>)
RetriesExhausted == Err("Error", <<"API call failed after multiple retries.">>)
ApiError(status, text) == Err("Error", <<"API Error: ", ToString(status), " - ", text>>)
NoSampleRate == Err("Error", <<"Could not determine sample rate from API response.">>)
InvalidFormat == Err("Error", <<"API response missing audio data or invalid format.">>)

\* the errors the platform throws
NetworkError == Err("TypeError", <<"Failed to fetch">>)
JsonSyntaxError == Err("SyntaxError", <<"Unexpected token in JSON">>)
NullBodyError == Err("TypeError", <<"Cannot read properties of null (reading 'error')">>)
CryptoUnavailable == Err("TypeError", <<"Cannot read properties of undefined (reading 'importKey')">>)
QuotaExceeded == Err("QuotaExceededError", <<"The quota has been exceeded.">>)

\* error.message.startsWith('API Error')
StartsWithApiError(e) == e.msg # <<>> /\ e.msg[1] = "API Error: "

\* response.status values the remote answers with
Statuses == {200, 404, 429, 503}
IsOk(status) == status >= 200 /\ status <= 299
IsRetryable(status) == status = 429 \/ status >= 500

\* "audio/L16;rate=24000", "audio/L16" and "audio/mpeg;rate=24000"
MimeL16Rate ==
  <<97, 117, 100, 105, 111, 47, 76, 49, 54, 59, 114, 97, 116, 101, 61, 50, 52, 48, 48, 48>>
MimeL16 == <<97, 117, 100, 105, 111, 47, 76, 49, 54>>
MimeMpeg ==
  <<97, 117, 100, 105, 111, 47, 109, 112, 101, 103, 59, 114, 97, 116, 101, 61, 50, 52, 48, 48, 48>>

\* What response.json() parses: the JSON value null, or an object, of which
\* data and mimeType are result?.candidates?.[0]?.content?.parts?.[0]
\* ?.inlineData's fields; <<>> is a missing (undefined) field, as are the
\* fields the optional chaining reads from null.
JsonObject(data, mimeType) == [json |-> "object", data |-> data, mimeType |-> mimeType]
JsonNull == [json |-> "null", data |-> <<>>, mimeType |-> <<>>]

Results ==
  { JsonObject(Btoa(<<1, 0, 255, 127>>), MimeL16Rate),
    JsonObject(Btoa(<<1, 0, 255>>), MimeL16Rate),
    JsonObject(<<>>, MimeL16Rate),
    JsonObject(Btoa(<<1, 0>>), MimeL16),
    JsonObject(<<>>, MimeL16),
    JsonObject(Btoa(<<1, 0>>), MimeMpeg),
    JsonObject(Btoa(<<1, 0>>), <<>>),
    JsonNull }

\* what response.json() gives: a parsed value, or a SyntaxError
OkBodies == {Ok(r) : r \in Results} \cup {JsonSyntaxError}
\* the body of an error response: {error: {message}}, null, or not JSON
ErrorBodies == {"object", "null", "notjson"}

\* what the user types into the text box: " " and " hi?" (the box starts, and
\* is left by generateSpeech, empty)
Texts == {<<32>>, <<32, 104, 105, 63>>}

\* what the user answers to prompt(): null (cancelled) is [has |-> FALSE], then
\* "", "sk-test-123" and a string that is a single U+FEFF
PromptAnswers ==
  { [has |-> FALSE, val |-> <<>>], [has |-> TRUE, val |-> <<>>],
    [has |-> TRUE, val |-> <<115, 107, 45, 116, 101, 115, 116, 45, 49, 50, 51>>],
    [has |-> TRUE, val |-> <<65279>>] }

NoItem == [has |-> FALSE, val |-> <<>>]
\* String(value) of what localStorage.getItem returned: null reads "null"
AsString(item) == IF item.has THEN item.val ELSE <<110, 117, 108, 108>>
\* truthiness of a string or null
Truthy(item) == item.has /\ item.val # <<>>

NoMessage == [text |-> <<>>, isError |-> FALSE]
NoPayload == [style |-> "none", text |-> <<>>]

VARIABLES
  store,            \* localStorage's "apiKey" item
  cryptoAvailable,  \* crypto.subtle exists (a secure context)
  loadPc,           \* window.onload: "pending" | "encrypting" | "done"
  promptKey,        \* the key typed at the prompt, while it is encrypted
  genPc,            \* generateSpeech: "idle" | "decrypting" | "fetching" |
                    \*                 "reading" | "waiting"
  readItem,         \* what getItem("apiKey") returned to fetchWithBackoff
  apiKey,           \* fetchWithBackoff's apiKey
  payload,          \* the request payload's style prompt
  attempt,          \* fetchWithBackoff's i
  delay,            \* fetchWithBackoff's delay
  requests,         \* HTTP requests sent by the current call
  lastStatus,       \* status of the latest response of the current call, 0 if none
  lastFailure,      \* how the latest attempt failed: "none" | "status" | "thrown"
  fetchResult,      \* what fetchWithBackoff returned or threw
  stepLog,          \* the console.error calls of the latest step
  loading,          \* setLoading's state: button disabled, spinner shown
  audioHidden,      \* the audio output area is hidden
  audioSrc,         \* audioPlayer.src: the bytes behind the object URL, <<>> if none
  message,          \* the message box's text and colour
  messageHidden,    \* the message box is hidden
  hideTimers,       \* pending setTimeout callbacks of showMessage
  textValue,        \* textInput.value
  charCount         \* the number shown in the character count

storeVars == <<store, cryptoAvailable>>
loadVars == <<loadPc, promptKey>>
fetchVars ==
  <<genPc, readItem, apiKey, payload, attempt, delay, requests, lastStatus,
    lastFailure, fetchResult>>
uiVars ==
  <<stepLog, loading, audioHidden, audioSrc, message, messageHidden, hideTimers,
    textValue, charCount>>
appVars == <<storeVars, loadVars, fetchVars, uiVars>>

\* the state of a freshly loaded page
PageFresh ==
  /\ loadPc = "pending"
  /\ promptKey = <<>>
  /\ genPc = "idle"
  /\ readItem = NoItem
  /\ apiKey = <<>>
  /\ payload = NoPayload
  /\ attempt = 0
  /\ delay = InitialDelay
  /\ requests = 0
  /\ lastStatus = 0
  /\ lastFailure = "none"
  /\ fetchResult = NoResult
  /\ stepLog = <<>>
  /\ loading = FALSE
  /\ audioHidden = TRUE
  /\ audioSrc = <<>>
  /\ message = NoMessage
  /\ messageHidden = TRUE
  /\ hideTimers = 0
  /\ textValue = <<>>
  /\ charCount = 0

AppInit ==
  /\ store = NoItem
  /\ cryptoAvailable \in BOOLEAN
  /\ PageFresh

\* showMessage(text, isError): the box shows the text; a timer will hide it
ShowMessage(text, isError) ==
  /\ hideTimers < MaxTimers
  /\ message' = [text |-> text, isError |-> isError]
  /\ messageHidden' = FALSE
  /\ hideTimers' = hideTimers + 1

\* the callback of showMessage's setTimeout; the timers all wait 5000 ms, so
\* the one that fires is the oldest one pending
HideTimerFires ==
  /\ hideTimers > 0
  /\ hideTimers' = hideTimers - 1
  /\ messageHidden' = TRUE
  /\ UNCHANGED <<storeVars, loadVars, fetchVars, stepLog, loading, audioHidden,
                 audioSrc, message, textValue, charCount>>

\* the 'input' listener of the text box
TypeText ==
  /\ \E v \in Texts : textValue' = v /\ charCount' = Len(v)
  /\ textValue' # textValue
  /\ UNCHANGED <<storeVars, loadVars, fetchVars, stepLog, loading, audioHidden,
                 audioSrc, message, messageHidden, hideTimers>>

\* the page is loaded again: everything but localStorage starts afresh
Reload ==
  /\ loadPc # "pending"
  /\ loadPc' = "pending"
  /\ promptKey' = <<>>
  /\ genPc' = "idle"
  /\ readItem' = NoItem
  /\ apiKey' = <<>>
  /\ payload' = NoPayload
  /\ attempt' = 0
  /\ delay' = InitialDelay
  /\ requests' = 0
  /\ lastStatus' = 0
  /\ lastFailure' = "none"
  /\ fetchResult' = NoResult
  /\ stepLog' = <<>>
  /\ loading' = FALSE
  /\ audioHidden' = TRUE
  /\ audioSrc' = <<>>
  /\ message' = NoMessage
  /\ messageHidden' = TRUE
  /\ hideTimers' = 0
  /\ textValue' = <<>>
  /\ charCount' = 0
  /\ UNCHANGED storeVars

\* window.onload up to its first await: the item is read; without one the
\* user is prompted and a non-empty answer starts encryptApiKey
OnLoad ==
  /\ loadPc = "pending"
  /\ IF Truthy(store)
     THEN /\ loadPc' = "done"
          /\ UNCHANGED <<promptKey, message, messageHidden, hideTimers>>
     ELSE \E answer \in PromptAnswers :
            IF Truthy(answer)
            THEN /\ loadPc' = "encrypting"
                 /\ promptKey' = answer.val
                 /\ UNCHANGED <<message, messageHidden, hideTimers>>
            ELSE /\ loadPc' = "done"
                 /\ ShowMessage(<<"No API key provided. Voice generation will not work.">>, TRUE)
                 /\ UNCHANGED promptKey
  /\ UNCHANGED <<storeVars, fetchVars, stepLog, loading, audioHidden, audioSrc,
                 textValue, charCount>>

\* window.onload storing the plaintext key
OnLoadEncrypted_Plaintext ==
  /\ loadPc = "encrypting"
  /\ cryptoAvailable
  /\ store' = [has |-> TRUE, val |-> promptKey]
  /\ ShowMessage(<<"API key saved successfully!">>, FALSE)
  /\ loadPc' = "done"
  /\ promptKey' = <<>>
  /\ UNCHANGED <<cryptoAvailable, fetchVars, stepLog, loading, audioHidden,
                 audioSrc, textValue, charCount>>

\* window.onload after await encryptApiKey(apiKey, "Encc1234"): the blob is
\* stored and the success message shown; a throw (no crypto.subtle, or
\* setItem over quota) ends the handler with nothing stored and nothing shown
OnLoadEncrypted ==
  /\ loadPc = "encrypting"
  /\ \/ /\ cryptoAvailable
        /\ \E s \in Seeds, n \in Seeds :
             store' = [has |-> TRUE,
                       val |-> encryptApiKey(promptKey, Encc1234,
                                             RandomBytes(saltLen, s),
                                             RandomBytes(ivLen, n + NumSeeds))]
        /\ ShowMessage(<<"API key saved successfully!">>, FALSE)
     \/ /\ UNCHANGED <<store, message, messageHidden, hideTimers>>
  /\ loadPc' = "done"
  /\ promptKey' = <<>>
  /\ UNCHANGED <<cryptoAvailable, fetchVars, stepLog, loading, audioHidden,
                 audioSrc, textValue, charCount>>

\* generateSpeech's try block with a rate of 24000 taken when mimeType names none
GenerateOutcome_DefaultRate(result) ==
  LET audioData == result.data
      mimeType == result.mimeType
  IN  IF audioData # <<>> /\ mimeType # <<>> /\ StartsWith(mimeType, MimeL16)
      THEN LET rateMatch == RateMatch(mimeType)
               sampleRate == IF rateMatch = <<>> THEN Wide(24000) ELSE parseInt(rateMatch)
               pcmData == base64ToArrayBuffer(audioData)
           IN  IF ~pcmData.ok THEN pcmData
               ELSE LET pcm16 == NewInt16Array(pcmData.val) IN
                    IF ~pcm16.ok THEN pcm16
                    ELSE Ok(pcmToWav(pcm16.val, sampleRate))
      ELSE InvalidFormat

\* generateSpeech's try block after fetchWithBackoff returned result: the WAV
\* bytes handed to the player, or the error thrown
GenerateOutcome(result) ==
  LET audioData == result.data
      mimeType == result.mimeType
  IN  IF audioData # <<>> /\ mimeType # <<>> /\ StartsWith(mimeType, MimeL16)
      THEN LET rateMatch == RateMatch(mimeType) IN
           IF rateMatch = <<>> THEN NoSampleRate
           ELSE LET sampleRate == parseInt(rateMatch)
                    pcmData == base64ToArrayBuffer(audioData)
                IN  IF ~pcmData.ok THEN pcmData
                    ELSE LET pcm16 == NewInt16Array(pcmData.val) IN
                         IF ~pcm16.ok THEN pcm16
                         ELSE Ok(pcmToWav(pcm16.val, sampleRate))
      ELSE InvalidFormat

LogEntry(tag, e) == [tag |-> tag, err |-> e]

\* fetchWithBackoff has returned or thrown: apiKey, i and delay are no more
CallOver ==
  /\ apiKey' = <<>>
  /\ attempt' = 0
  /\ delay' = InitialDelay

\* fetchWithBackoff's locals stay as they are
CallGoesOn == UNCHANGED <<apiKey, attempt, delay>>

\* generateSpeech goes on waiting at pc; logs are this step's console.error calls
RunContinues(pc, logs) ==
  /\ genPc' = pc
  /\ stepLog' = logs
  /\ UNCHANGED <<loading, audioHidden, audioSrc, message, messageHidden,
                 hideTimers, textValue, charCount>>

\* generateSpeech's catch block without a finally block: setLoading(false)
\* is not called
RunFails_NoFinally(e, logs) ==
  /\ CallOver
  /\ stepLog' = logs \o <<LogEntry("TTS generation failed:", e)>>
  /\ ShowMessage(<<"Failed to generate speech: ">>
                   \o (IF e.msg = <<>> THEN <<"An unknown error occurred.">> ELSE e.msg),
                 TRUE)
  /\ audioHidden' = TRUE
  /\ audioSrc' = <<>>
  /\ UNCHANGED loading
  /\ textValue' = <<>>
  /\ genPc' = "idle"
  /\ UNCHANGED charCount

\* generateSpeech's catch block leaving the audio area and the player alone
RunFails_KeepsAudio(e, logs) ==
  /\ CallOver
  /\ stepLog' = logs \o <<LogEntry("TTS generation failed:", e)>>
  /\ ShowMessage(<<"Failed to generate speech: ">>
                   \o (IF e.msg = <<>> THEN <<"An unknown error occurred.">> ELSE e.msg),
                 TRUE)
  /\ UNCHANGED <<audioHidden, audioSrc>>
  /\ loading' = FALSE
  /\ textValue' = <<>>
  /\ genPc' = "idle"
  /\ UNCHANGED charCount

\* generateSpeech's catch and finally blocks, and the clearing of the text;
\* fetchWithBackoff's locals are gone
RunFails(e, logs) ==
  /\ CallOver
  /\ stepLog' = logs \o <<LogEntry("TTS generation failed:", e)>>
  /\ ShowMessage(<<"Failed to generate speech: ">>
                   \o (IF e.msg = <<>> THEN <<"An unknown error occurred.">> ELSE e.msg),
                 TRUE)
  /\ audioHidden' = TRUE
  /\ audioSrc' = <<>>
  /\ loading' = FALSE
  /\ textValue' = <<>>
  /\ genPc' = "idle"
  /\ UNCHANGED charCount

\* generateSpeech's success path, its finally block, and the clearing
RunSucceeds(wav) ==
  /\ CallOver
  /\ stepLog' = <<>>
  /\ audioSrc' = wav
  /\ audioHidden' = FALSE
  /\ ShowMessage(<<"Speech generated successfully using voice: ", "voice", "!">>, FALSE)
  /\ loading' = FALSE
  /\ textValue' = <<>>
  /\ genPc' = "idle"
  /\ UNCHANGED charCount

\* a click handled by a generateSpeech that does not disable the button
Click_NoDisable ==
  /\ ~loading
  /\ LET text == Trim(textValue) IN
     IF text = <<>>
     THEN /\ ShowMessage(<<"Please enter some text to generate speech.">>, TRUE)
          /\ stepLog' = <<>>
          /\ UNCHANGED <<fetchVars, loading, audioHidden, audioSrc, textValue, charCount>>
     ELSE /\ UNCHANGED loading
          /\ audioHidden' = TRUE
          /\ payload' = [style |-> IF \E k \in 1..Len(textValue) : textValue[k] = 63
                                   THEN "Say excitedly: " ELSE "Say clearly: ",
                         text |-> text]
          /\ readItem' = store
          /\ genPc' = "decrypting"
          /\ apiKey' = <<>>
          /\ attempt' = 0
          /\ delay' = InitialDelay
          /\ requests' = 0
          /\ lastStatus' = 0
          /\ lastFailure' = "none"
          /\ fetchResult' = NoResult
          /\ stepLog' = <<>>
          /\ UNCHANGED <<audioSrc, message, messageHidden, hideTimers, textValue, charCount>>
  /\ UNCHANGED <<storeVars, loadVars>>

\* a click on the generate button, which takes clicks while it is not
\* disabled: generateSpeech up to its first await, which is inside
\* fetchWithBackoff's decryptApiKey
Click ==
  /\ ~loading
  /\ LET text == Trim(textValue) IN
     IF text = <<>>
     THEN /\ ShowMessage(<<"Please enter some text to generate speech.">>, TRUE)
          /\ stepLog' = <<>>
          /\ UNCHANGED <<fetchVars, loading, audioHidden, audioSrc, textValue, charCount>>
     ELSE /\ loading' = TRUE
          /\ audioHidden' = TRUE
          /\ payload' = [style |-> IF \E k \in 1..Len(textValue) : textValue[k] = 63
                                   THEN "Say excitedly: " ELSE "Say clearly: ",
                         text |-> text]
          /\ readItem' = store
          /\ genPc' = "decrypting"
          /\ apiKey' = <<>>
          /\ attempt' = 0
          /\ delay' = InitialDelay
          /\ requests' = 0
          /\ lastStatus' = 0
          /\ lastFailure' = "none"
          /\ fetchResult' = NoResult
          /\ stepLog' = <<>>
          /\ UNCHANGED <<audioSrc, message, messageHidden, hideTimers, textValue, charCount>>
  /\ UNCHANGED <<storeVars, loadVars>>

\* fetchWithBackoff without the test of the key: an empty key is sent too
DecryptSettles_NoKeyTest ==
  /\ genPc = "decrypting"
  /\ LET buf == base64ToBuf(AsString(readItem))
         r == IF ~buf.ok THEN buf
              ELSE IF ~cryptoAvailable THEN CryptoUnavailable
              ELSE decryptApiKey(AsString(readItem), Encc1234)
     IN  IF ~r.ok
         THEN /\ fetchResult' = r
              /\ RunFails(r, <<>>)
              /\ UNCHANGED requests
         ELSE /\ apiKey' = r.val
              /\ attempt' = 0
              /\ delay' = InitialDelay
              /\ requests' = 1
              /\ RunContinues("fetching", <<>>)
              /\ UNCHANGED fetchResult
  /\ UNCHANGED <<storeVars, loadVars, readItem, payload, lastStatus, lastFailure>>

\* fetchWithBackoff after await decryptApiKey(...): a throw or an empty key
\* ends the call, otherwise the first request is sent
DecryptSettles ==
  /\ genPc = "decrypting"
  /\ LET buf == base64ToBuf(AsString(readItem))
         r == IF ~buf.ok THEN buf
              ELSE IF ~cryptoAvailable THEN CryptoUnavailable
              ELSE decryptApiKey(AsString(readItem), Encc1234)
     IN  IF ~r.ok
         THEN /\ fetchResult' = r
              /\ RunFails(r, <<>>)
              /\ UNCHANGED requests
         ELSE IF r.val = <<>>
         THEN /\ fetchResult' = KeyNotFound
              /\ RunFails(KeyNotFound, <<>>)
              /\ UNCHANGED requests
         ELSE /\ apiKey' = r.val
              /\ attempt' = 0
              /\ delay' = InitialDelay
              /\ requests' = 1
              /\ RunContinues("fetching", <<>>)
              /\ UNCHANGED fetchResult
  /\ UNCHANGED <<storeVars, loadVars, readItem, payload, lastStatus, lastFailure>>

\* the catch block of fetchWithBackoff's loop, without the last-retry test
CatchAttempt_NoLastRetry(e) ==
  /\ lastFailure' = "thrown"
  /\ IF StartsWithApiError(e)
     THEN /\ fetchResult' = e
          /\ RunFails(e, <<LogEntry("Fetch attempt failed:", e)>>)
     ELSE /\ RunContinues("waiting", <<LogEntry("Fetch attempt failed:", e)>>)
          /\ CallGoesOn
          /\ UNCHANGED fetchResult

\* the catch block of fetchWithBackoff's loop: the error is logged; on the
\* last retry, or for an 'API Error', it is thrown on, otherwise the loop waits
CatchAttempt(e) ==
  /\ lastFailure' = "thrown"
  /\ IF attempt = maxRetries - 1 \/ StartsWithApiError(e)
     THEN /\ fetchResult' = e
          /\ RunFails(e, <<LogEntry("Fetch attempt failed:", e)>>)
     ELSE /\ RunContinues("waiting", <<LogEntry("Fetch attempt failed:", e)>>)
          /\ CallGoesOn
          /\ UNCHANGED fetchResult

\* await fetch(...) settles: it throws, or a response with a status arrives
FetchSettles ==
  /\ genPc = "fetching"
  /\ \/ /\ lastStatus' = 0
        /\ CatchAttempt(NetworkError)
     \/ \E status \in Statuses :
          /\ lastStatus' = status
          /\ IF IsOk(status)
             THEN /\ RunContinues("reading", <<>>)
                  /\ CallGoesOn
                  /\ UNCHANGED <<lastFailure, fetchResult>>
             ELSE IF IsRetryable(status)
             THEN /\ lastFailure' = "status"
                  /\ RunContinues("waiting", <<>>)
                  /\ CallGoesOn
                  /\ UNCHANGED fetchResult
             ELSE /\ RunContinues("reading", <<>>)
                  /\ CallGoesOn
                  /\ UNCHANGED <<lastFailure, fetchResult>>
  /\ UNCHANGED <<storeVars, loadVars, readItem, payload, requests>>

\* await response.json() settles: of a 2xx response, the result returned to
\* generateSpeech (or a SyntaxError); of an error response, the API Error
\* built from it (or the error thrown while reading it)
BodySettles ==
  /\ genPc = "reading"
  /\ IF IsOk(lastStatus)
     THEN \E body \in OkBodies :
            IF body.ok
            THEN /\ fetchResult' = body
                 /\ UNCHANGED lastFailure
                 /\ LET outcome == GenerateOutcome(body.val) IN
                    IF outcome.ok THEN RunSucceeds(outcome.val)
                    ELSE RunFails(outcome, <<>>)
            ELSE CatchAttempt(body)
     ELSE \E body \in ErrorBodies :
            CatchAttempt(IF body = "object" THEN ApiError(lastStatus, "Not Found")
                         ELSE IF body = "null" THEN NullBodyError
                         ELSE JsonSyntaxError)
  /\ UNCHANGED <<storeVars, loadVars, readItem, payload, requests, lastStatus>>

\* the loop with a delay that grows by a second: delay += 1000
BackoffElapsed_Linear ==
  /\ genPc = "waiting"
  /\ IF attempt + 1 < maxRetries
     THEN /\ delay' = delay + InitialDelay
          /\ attempt' = attempt + 1
          /\ UNCHANGED apiKey
          /\ requests' = requests + 1
          /\ RunContinues("fetching", <<>>)
          /\ UNCHANGED fetchResult
     ELSE /\ fetchResult' = RetriesExhausted
          /\ RunFails(RetriesExhausted, <<>>)
          /\ UNCHANGED requests
  /\ UNCHANGED <<storeVars, loadVars, readItem, payload, lastStatus, lastFailure>>

\* the loop with one iteration more: i < maxRetries + 1
BackoffElapsed_OneMore ==
  /\ genPc = "waiting"
  /\ IF attempt + 1 < maxRetries + 1
     THEN /\ delay' = delay * 2
          /\ attempt' = attempt + 1
          /\ UNCHANGED apiKey
          /\ requests' = requests + 1
          /\ RunContinues("fetching", <<>>)
          /\ UNCHANGED fetchResult
     ELSE /\ fetchResult' = RetriesExhausted
          /\ RunFails(RetriesExhausted, <<>>)
          /\ UNCHANGED requests
  /\ UNCHANGED <<storeVars, loadVars, readItem, payload, lastStatus, lastFailure>>

\* the backoff timer fires: delay doubles, i++ ends the iteration; the next
\* request is sent, or the loop is over and the call throws
BackoffElapsed ==
  /\ genPc = "waiting"
  /\ IF attempt + 1 < maxRetries
     THEN /\ delay' = delay * 2
          /\ attempt' = attempt + 1
          /\ UNCHANGED apiKey
          /\ requests' = requests + 1
          /\ RunContinues("fetching", <<>>)
          /\ UNCHANGED fetchResult
     ELSE /\ fetchResult' = RetriesExhausted
          /\ RunFails(RetriesExhausted, <<>>)
          /\ UNCHANGED requests
  /\ UNCHANGED <<storeVars, loadVars, readItem, payload, lastStatus, lastFailure>>

AppParked ==
  /\ store = NoItem
  /\ cryptoAvailable = TRUE
  /\ PageFresh

\* ---------------------------------------------------------- specifications
\* Each specification exercises one part of the program; the variables of
\* the other parts stay at their parked values.
CipherParked ==
  /\ cPassword = Encc1234
  /\ cPlain = <<>>
  /\ cBlob = <<>>
  /\ cOrigin = "none"
  /\ cDecPassword = <<>>
  /\ cDone = FALSE
  /\ cResult = NoResult

WavParked ==
  /\ wPcm16 = [buffer |-> <<>>, byteOffset |-> 0, length |-> 0]
  /\ wRate = Wide(0)
  /\ wCalled = FALSE
  /\ wOut = <<>>

vars == <<cipherVars, wavVars, appVars>>

InitCipher == WavParked /\ AppParked /\ CipherInit

NextCipher ==
  \/ CipherEncrypt /\ UNCHANGED <<wavVars, appVars>>
  \/ CipherTamper /\ UNCHANGED <<wavVars, appVars>>
  \/ CipherForeign /\ UNCHANGED <<wavVars, appVars>>
  \/ CipherDecrypt /\ UNCHANGED <<wavVars, appVars>>

SpecCipher == InitCipher /\ [][NextCipher]_vars

InitWav == CipherParked /\ AppParked /\ WavInit

NextWav == WavCall /\ UNCHANGED <<cipherVars, appVars>>

SpecWav == InitWav /\ [][NextWav]_vars

Init == CipherParked /\ WavParked /\ AppInit

Next ==
  \/ OnLoad /\ UNCHANGED <<cipherVars, wavVars>>
  \/ OnLoadEncrypted /\ UNCHANGED <<cipherVars, wavVars>>
  \/ Reload /\ UNCHANGED <<cipherVars, wavVars>>
  \/ TypeText /\ UNCHANGED <<cipherVars, wavVars>>
  \/ Click /\ UNCHANGED <<cipherVars, wavVars>>
  \/ DecryptSettles /\ UNCHANGED <<cipherVars, wavVars>>
  \/ FetchSettles /\ UNCHANGED <<cipherVars, wavVars>>
  \/ BodySettles /\ UNCHANGED <<cipherVars, wavVars>>
  \/ BackoffElapsed /\ UNCHANGED <<cipherVars, wavVars>>
  \/ HideTimerFires /\ UNCHANGED <<cipherVars, wavVars>>

Spec == Init /\ [][Next]_vars

\* The handlers under the scheduling the platform gives them: the promise a
\* run awaits (the decryption, the request, the reading of the body, the
\* backoff timer - one of them at a time) settles, and a timer set to hide the
\* message fires.  Loading the page, typing and clicking are up to the user.
\* AwaitSettles is the step of DecryptSettles, FetchSettles, BodySettles or
\* BackoffElapsed as genPc shows it: each of them moves genPc on, and each is
\* enabled wherever the run waits and showMessage can still set a timer.
AwaitSettles ==
  /\ genPc # "idle"
  /\ hideTimers < MaxTimers
  /\ genPc' \in {"idle", "fetching", "reading", "waiting"} \ {genPc}

Fairness ==
  /\ WF_genPc(AwaitSettles)
  /\ WF_vars(HideTimerFires /\ UNCHANGED <<cipherVars, wavVars>>)

SpecFair == Init /\ [][Next]_vars /\ Fairness

\* ------------------------------------------------------ claims, the cipher
\* the error decryptApiKey throws when the tag does not verify
AuthenticationFailed == Err("OperationError", <<>>)

\* a blob that does not decode as base64 or decodes to fewer than 28 bytes
IsMalformed(blob) ==
  LET buf == base64ToBuf(blob) IN ~buf.ok \/ Len(buf.val) < saltLen + ivLen

\* C1: decrypting what encryptApiKey returned, with the same password,
\* returns exactly the plaintext that was encrypted, for every plaintext
\* string.  (Fails: a leading U+FEFF is dropped, a lone surrogate comes back
\* as U+FFFD.)
C1_RoundTrip ==
  (cDone /\ cOrigin = "encrypt" /\ cDecPassword = cPassword) => cResult = Ok(cPlain)

\* C2: decrypting a blob that is not base64 or is shorter than 28 bytes fails
\* with an error of its own, one that is not the authentication failure, and
\* returns no plaintext.  (Fails: "" and every short blob end in the very
\* OperationError a wrong password gives.)
C2_MalformedBlobDistinct ==
  (cDone /\ IsMalformed(cBlob)) => (~cResult.ok /\ cResult.err # AuthenticationFailed.err)

Field(out, off, n) == SubSeq(out, off + 1, off + n)

\* the integer is less than 2^31
Below2Pow31(d) == \A i \in 4..Len(d) : Digit(d, i) < (IF i = 4 THEN 128 ELSE 1)

\* C7: the container is 44 + L bytes long, bytes 4-7 hold 36 + L and bytes
\* 40-43 hold L, little-endian, for every payload length L, 0 included.
C7_FramerSize ==
  wCalled =>
    /\ Len(wOut) = 44 + ByteLength(wPcm16)
    /\ Field(wOut, 4, 4) = Wide(36 + ByteLength(wPcm16))
    /\ Field(wOut, 40, 4) = Wide(ByteLength(wPcm16))

\* an empty sample array was framed: a 44-byte container
C7_Witness ==
  /\ wCalled
  /\ ByteLength(wPcm16) = 0
  /\ Len(wOut) = 44
  /\ Field(wOut, 4, 4) = <<36, 0, 0, 0>>

\* C8 as stated: bytes 28-31 hold exactly 2 * r, and bytes 32-33 hold 2, for
\* every rate r.  (Fails from r = 2^31 on: the field keeps 32 bits.)
C8_ByteRateExact ==
  wCalled =>
    /\ WideEq(Field(wOut, 28, 4), WideTimes(wRate, 2))
    /\ Field(wOut, 32, 2) = <<2, 0>>

\* C8 amended: bytes 28-31 hold 2 * r mod 2^32, which is 2 * r itself for
\* every r < 2^31, and bytes 32-33 hold 2.
C8_ByteRateMod32 ==
  wCalled =>
    /\ Field(wOut, 28, 4) = SubSeq(WideTimes(wRate, 2) \o <<0, 0, 0, 0>>, 1, 4)
    /\ Below2Pow31(wRate) => WideEq(Field(wOut, 28, 4), WideTimes(wRate, 2))
    /\ Field(wOut, 32, 2) = <<2, 0>>

\* a rate of 2^31 or more was framed, and the field holds the low 32 bits only
C8_Witness ==
  /\ wCalled
  /\ wRate = <<192, 93, 0, 128>>
  /\ Field(wOut, 28, 4) = <<128, 187, 0, 0>>

\* C9: bytes 44 .. 44+L-1 are the bytes of pcm16's own samples, for every
\* Int16Array, also a view at a non-zero byte offset.  (Fails for such a view:
\* the copy reads the underlying buffer from its byte 0.)
C9_PayloadVerbatim ==
  wCalled => SubSeq(wOut, 45, 44 + ByteLength(wPcm16)) = OwnBytes(wPcm16)

\* -------------------------------------------------- claims, the handlers
\* a fetchWithBackoff call has ended by throwing
CallThrew == genPc = "idle" /\ fetchResult # NoResult /\ ~fetchResult.ok

\* C4: a call made while localStorage holds no "apiKey" item fails with the
\* credential-missing error ("API key not found..."), not with the decryption
\* error, and sends no request.  (Fails: getItem's null is decoded as the
\* base64 string "null" and decryption throws OperationError before the
\* test of the key is reached.)
C4_CredentialMissing ==
  (CallThrew /\ cryptoAvailable /\ ~readItem.has)
    => (fetchResult = KeyNotFound /\ fetchResult # AuthenticationFailed /\ requests = 0)

\* C5: a request is in flight after a response only if that response was 2xx
\* or had status 429 or >= 500; and the loop waits to retry after a status
\* only if the status is 429 or >= 500.  (Fails: a 404 whose body is not
\* JSON is retried.)
C5_RetryOnlyRetryable ==
  /\ genPc = "fetching" => (lastStatus = 0 \/ IsOk(lastStatus) \/ IsRetryable(lastStatus))
  /\ (genPc = "waiting" /\ lastFailure = "status") => IsRetryable(lastStatus)

\* the call threw after its fifth request, whose attempt ended in a retryable
\* status or in an exception thrown by fetch itself
CeilingReached ==
  /\ CallThrew
  /\ requests = maxRetries
  /\ lastFailure = "status" \/ (lastFailure = "thrown" /\ lastStatus = 0)

\* C6 as stated: a call that reaches the ceiling of 5 attempts without a
\* successful response throws the retries-exhausted error, whether the
\* attempts failed by a retryable status or by a thrown network error.
\* (Fails: a network error on the fifth attempt is thrown on as it is.)
C6_AlwaysExhausted == CeilingReached => fetchResult = RetriesExhausted

\* C6 amended: at the ceiling the call throws the retries-exhausted error
\* when the fifth attempt ended in a retryable status, and the fifth
\* attempt's own exception when fetch threw.
C6_ExhaustedOrRethrown ==
  CeilingReached =>
    /\ lastFailure = "status" => fetchResult = RetriesExhausted
    /\ lastFailure = "thrown" => fetchResult = NetworkError

\* five requests were sent, the fifth answered 429 or 5xx, and the call threw
\* the retries-exhausted error
C6_Witness ==
  /\ CeilingReached
  /\ lastFailure = "status"
  /\ IsRetryable(lastStatus)
  /\ fetchResult = RetriesExhausted

\* C10: the "apiKey" item changes only when window.onload stores the blob of
\* the non-empty key typed at the prompt, no item being present: the value is
\* what encryptApiKey returned for that key under "Encc1234", never the key
\* itself; an item once present is never overwritten or removed; a declined
\* prompt or a failed encryption leaves no item.
C10_BlobLifecycle ==
  [][ /\ store' # store =>
           /\ ~store.has
           /\ loadPc = "encrypting"
           /\ promptKey # <<>>
           /\ cryptoAvailable
           /\ store'.has
           /\ store'.val # promptKey
           /\ \E s \in Seeds, n \in Seeds :
                store'.val = encryptApiKey(promptKey, Encc1234, RandomBytes(saltLen, s),
                                           RandomBytes(ivLen, n + NumSeeds))
      /\ (loadPc # "done" /\ loadPc' = "done" /\ ~store.has
            /\ (loadPc = "pending" \/ ~cryptoAvailable)) => ~store'.has
    ]_vars

\* the first run has stored a blob and reported it
C10_Witness ==
  /\ store.has
  /\ loadPc = "done"
  /\ message.text = <<"API key saved successfully!">>
  /\ decryptApiKey(store.val, Encc1234).ok

\* the step loads the page again
Reloaded == loadPc # "pending" /\ loadPc' = "pending"

\* the step ran fetchWithBackoff's catch block: the attempt's error was thrown
\* on or the loop went on to wait
AttemptCaught ==
  /\ genPc \in {"fetching", "reading"}
  /\ \/ genPc' = "waiting" /\ lastFailure' = "thrown"
     \/ genPc' = "idle" /\ fetchResult' # NoResult /\ ~fetchResult'.ok

\* the step ran generateSpeech's catch block
RunCaught ==
  /\ genPc # "idle"
  /\ genPc' = "idle"
  /\ ~Reloaded
  /\ ~(fetchResult'.ok /\ GenerateOutcome(fetchResult'.val).ok)

\* the step ended window.onload with encryptApiKey or setItem having thrown
EncryptionFailed == loadPc = "encrypting" /\ loadPc' = "done" /\ ~store'.has

\* the step called console.error with the tag
Logged(tag) == \E k \in 1..Len(stepLog') : stepLog'[k].tag = tag

\* the step called showMessage(..., true)
ShownAsError == hideTimers' = hideTimers + 1 /\ ~messageHidden' /\ message'.isError

\* C11: every failure caught in the orchestrator - a failed attempt in
\* fetchWithBackoff's loop, a failure caught by generateSpeech, a failure of
\* encryption during page load - is logged and shown to the user as an error
\* message.  (Fails: window.onload has no catch, so a failed encryption ends
\* the handler with nothing shown; an attempt that is retried is only logged.)
C11_NoErrorSwallowed ==
  [][ /\ AttemptCaught => (Logged("Fetch attempt failed:") /\ ShownAsError)
      /\ RunCaught => (Logged("TTS generation failed:") /\ ShownAsError)
      /\ EncryptionFailed => (stepLog' # <<>> /\ ShownAsError)
    ]_vars

\* the part of C11 that holds: what generateSpeech catches is logged and shown
C11_RunFailuresSurfaced ==
  [][RunCaught => (Logged("TTS generation failed:") /\ ShownAsError)]_vars

\* the step returned a 2xx response's parsed body to generateSpeech, which
\* ran to its end
ResponseReturned == genPc = "reading" /\ genPc' = "idle" /\ fetchResult'.ok

\* mimeType starts with "audio/L16" and holds no "rate=<digits>"
NoRate(r) == StartsWith(r.mimeType, MimeL16) /\ RateMatch(r.mimeType) = <<>>

\* the audio data is missing, or mimeType does not start with "audio/L16"
NotPcm16(r) == r.data = <<>> \/ ~StartsWith(r.mimeType, MimeL16)

\* the step's run threw e before pcmToWav, and the player has no source
RejectedWith(r, e) ==
  /\ GenerateOutcome(r) = e
  /\ stepLog' = <<LogEntry("TTS generation failed:", e)>>
  /\ message' = [text |-> <<"Failed to generate speech: ">> \o e.msg, isError |-> TRUE]
  /\ audioSrc' = <<>>
  /\ audioHidden'

\* C12 as stated: a 2xx response whose mimeType starts with "audio/L16" and
\* holds no rate fails with the sample-rate error; one whose audio data is
\* missing or whose mimeType does not start with "audio/L16" fails with the
\* invalid-format error; the errors differ, pcmToWav is not called and the
\* player gets no source.  (Fails: a response with "audio/L16", no rate and no
\* audio data falls under both and fails with the invalid-format error.)
C12_NoRateAlwaysRateError ==
  [][ResponseReturned =>
       LET r == fetchResult'.val IN
         /\ NoRate(r) => RejectedWith(r, NoSampleRate)
         /\ NotPcm16(r) => RejectedWith(r, InvalidFormat)
         /\ NoSampleRate # InvalidFormat
    ]_vars

\* C12 amended: the sample-rate error is for a response that has audio data
\* and an "audio/L16" mimeType without a rate; the rest is as stated.
C12_ResponseValidation ==
  [][ResponseReturned =>
       LET r == fetchResult'.val IN
         /\ (r.data # <<>> /\ NoRate(r)) => RejectedWith(r, NoSampleRate)
         /\ NotPcm16(r) => RejectedWith(r, InvalidFormat)
         /\ NoSampleRate # InvalidFormat
    ]_vars

\* a response with audio data and "audio/L16" without a rate was rejected
\* with the sample-rate error
C12_Witness ==
  /\ genPc = "idle"
  /\ fetchResult.ok
  /\ fetchResult.val.data # <<>>
  /\ NoRate(fetchResult.val)
  /\ stepLog = <<LogEntry("TTS generation failed:", NoSampleRate)>>
  /\ audioSrc = <<>>
  /\ audioHidden

\* -------------------------------------------- claims, the cipher (continued)
\* encryptApiKey has just returned cBlob
JustEncrypted == cOrigin = "encrypt" /\ ~cDone

\* the salt and nonce of a blob: bytes 0-15 and 16-27 of what it decodes to
BlobSalt(blob) == Slice(base64ToBuf(blob).val, 0, saltLen)
BlobNonce(blob) == Slice(base64ToBuf(blob).val, saltLen, saltLen + ivLen)

\* the part of C13 about freshness alone: the blob carries the salt and nonce
\* this call drew, and a call with the same arguments and another draw
\* returns another blob
C13_FreshSaltAndNonce ==
  JustEncrypted =>
    /\ \E s \in Seeds, n \in Seeds :
         /\ BlobSalt(cBlob) = RandomBytes(saltLen, s)
         /\ BlobNonce(cBlob) = RandomBytes(ivLen, n + NumSeeds)
         /\ cBlob = encryptApiKey(cPlain, cPassword, BlobSalt(cBlob), BlobNonce(cBlob))
    /\ \A s \in Seeds, n \in Seeds :
         LET salt == RandomBytes(saltLen, s)
             iv == RandomBytes(ivLen, n + NumSeeds)
         IN  (salt # BlobSalt(cBlob) \/ iv # BlobNonce(cBlob))
               => encryptApiKey(cPlain, cPassword, salt, iv) # cBlob

\* C13: every call of encryptApiKey places the 16-byte salt and the 12-byte
\* nonce it drew at bytes 0-15 and 16-27 of the decoded blob; a second call
\* with the same key and password, drawing another salt and nonce, returns
\* another blob; and each of the blobs decrypts to the key.  (Fails in its last
\* part: a key with a lone surrogate or a leading U+FEFF does not come back.)
C13_FreshAndDecrypts ==
  JustEncrypted =>
    /\ C13_FreshSaltAndNonce
    /\ \A s \in Seeds, n \in Seeds :
         decryptApiKey(encryptApiKey(cPlain, cPassword, RandomBytes(saltLen, s),
                                     RandomBytes(ivLen, n + NumSeeds)),
                       cPassword) = Ok(cPlain)

\* ------------------------------------- claims, the handlers (continued)
\* what the call's one decryption gives: decryptApiKey of the item read
Decrypted == decryptApiKey(AsString(readItem), Encc1234)

\* C14: a call decrypts the credential once, before its first request: the
\* decryption starts only as the call starts, no request sent; the first
\* request follows a decryption that returned a non-empty key, and every
\* later request follows a backoff wait, with the key of the first; a call
\* whose decryption threw or returned "" ends with no request sent.
C14_DecryptBeforeRequest ==
  [][ /\ (genPc # "decrypting" /\ genPc' = "decrypting")
           => (genPc = "idle" /\ requests' = 0)
      /\ requests' > requests
           => \/ /\ genPc = "decrypting" /\ requests = 0 /\ requests' = 1
                 /\ cryptoAvailable /\ Decrypted.ok
                 /\ apiKey' = Decrypted.val /\ apiKey' # <<>>
              \/ /\ genPc = "waiting" /\ genPc' = "fetching"
                 /\ requests' = requests + 1
                 /\ apiKey' = apiKey /\ apiKey # <<>>
      /\ (genPc = "decrypting" /\ genPc' # "decrypting" /\ ~Reloaded
            /\ (~cryptoAvailable \/ ~Decrypted.ok \/ Decrypted.val = <<>>))
           => (genPc' = "idle" /\ requests' = 0 /\ ~fetchResult'.ok
                 /\ fetchResult' # NoResult)
    ]_vars

\* the stored blob decrypted to "": the call ended with the key-not-found
\* error and no request
C14_Witness ==
  /\ genPc = "idle"
  /\ readItem.has
  /\ Decrypted = Ok(<<>>)
  /\ fetchResult = KeyNotFound
  /\ requests = 0

\* a call is at its third request with the key decrypted before the first
C14_RetryWitness ==
  /\ genPc = "fetching"
  /\ requests = 3
  /\ apiKey = Decrypted.val

C16_ExponentialBackoff ==
  /\ genPc \in {"idle", "decrypting"} => delay = InitialDelay
  /\ genPc \in {"fetching", "reading", "waiting"}
       => (/\ attempt \in 0..(maxRetries - 1)
           /\ requests = attempt + 1
           /\ delay = InitialDelay * 2^attempt)
  /\ genPc = "waiting" => lastFailure \in {"status", "thrown"}

\* the fourth attempt threw and the call waits 8000 ms before its fourth retry
C16_Witness ==
  /\ genPc = "waiting"
  /\ attempt = 3
  /\ lastFailure = "thrown"
  /\ delay = 8000

\* C17: a run enters the loading state only with text that is not empty when
\* trimmed; the loading state is left when the run ends, and only then; no
\* run is over with the button still disabled; and, the promises the run
\* awaits settling, every run that entered the loading state leaves it.
C17_LoadingReset ==
  /\ [](genPc = "idle" => ~loading)
  /\ [][ /\ (~loading /\ loading') => (Trim(textValue) # <<>> /\ genPc' = "decrypting")
         /\ (~loading /\ Trim(textValue) = <<>>) => ~loading'
         /\ (loading /\ ~loading' /\ ~Reloaded)
              => (genPc # "idle" /\ genPc' = "idle" /\ fetchResult' # NoResult)
       ]_vars
  /\ loading ~> ~loading

\* a run that ended in a non-retryable API error has left the loading state
C17_Witness ==
  /\ ~loading
  /\ genPc = "idle"
  /\ ~fetchResult.ok
  /\ StartsWithApiError(fetchResult)
  /\ message.isError

\* C18: a run is in progress only while the button is disabled, and a run
\* starts only when none is in progress: at no time are there two.
C18_SingleGeneration ==
  /\ [](genPc # "idle" => loading)
  /\ [][(genPc # "decrypting" /\ genPc' = "decrypting")
          => (genPc = "idle" /\ ~loading /\ loading')]_vars

\* a run waits for the remote while the text box holds text again: the
\* button is disabled
C18_Witness ==
  /\ genPc = "fetching"
  /\ loading
  /\ Trim(textValue) # <<>>

\* C19: a message is hidden only by the timer of the showMessage call that
\* displayed it, 5 s after that call - never by the timer of an earlier call.
\* (Fails: the timers are never cleared, so with two pending the older one
\* fires first and hides the newer message.)
C19_OnlyOwnTimerHides ==
  [][(~messageHidden /\ messageHidden' /\ ~Reloaded) => hideTimers = 1]_vars

\* the latest call's response was turned into audio for the player
RunSucceeded ==
  genPc = "idle" /\ fetchResult.ok /\ GenerateOutcome(fetchResult.val).ok

SuccessText == <<"Speech generated successfully using voice: ", "voice", "!">>

\* C20 as stated: the audio area is visible only if the most recent
\* generateSpeech run - the one that showed the latest message - succeeded
\* and the player's source is the audio built from its response; the area is
\* hidden while a run is loading and after a failed run, and then the source
\* is empty.  (Fails: a run rejected for empty text leaves the area visible.)
C20_VisibleOnlyAfterSuccess ==
  /\ ~audioHidden => (/\ RunSucceeded
                      /\ audioSrc = GenerateOutcome(fetchResult.val).val
                      /\ message.text = SuccessText)
  /\ loading => audioHidden
  /\ (genPc = "idle" /\ message.isError) => (audioHidden /\ audioSrc = <<>>)

\* C20 amended: the same with "the most recent run that entered the loading
\* state"; a run rejected for empty text changes neither the area nor the
\* source.
C20_AudioVisibility ==
  /\ ~audioHidden => (/\ RunSucceeded
                      /\ audioSrc = GenerateOutcome(fetchResult.val).val)
  /\ loading => audioHidden
  /\ (genPc = "idle" /\ fetchResult # NoResult /\ ~RunSucceeded)
       => (audioHidden /\ audioSrc = <<>>)

\* after a successful run, a click with empty text was rejected and the audio
\* of the successful run is still shown
C20_Witness ==
  /\ ~audioHidden
  /\ RunSucceeded
  /\ audioSrc = GenerateOutcome(fetchResult.val).val
  /\ audioSrc # <<>>
  /\ message.text = <<"Please enter some text to generate speech.">>

====
